---- MODULE Spec2Model ----
(***************************************************************************)
(* Pour orchestration of the MixMasterAI cocktail machine.                 *)
(*                                                                         *)
(* The model follows pour_cocktail (src/app.py 423-606, and its twin in    *)
(* src/backend/app.py 383-514), the pump driver initialize_pump_pin /      *)
(* pour_ingredient (src/app.py 21-87) and the MachineState singleton       *)
(* (src/backend/models.py 100-120).  Every pour request is a process that  *)
(* walks through the handler; every dispense thread it starts is a process *)
(* of its own.  Volumes are fixed-point, in thousandths of a millilitre.   *)
(***************************************************************************)
EXTENDS Integers, Sequences, FiniteSets, TLC

\* ------------------------------------------------------------------ bounds

\* Number of pour requests issued (each one HTTP POST /pour/<recipe_id>).
NumReq == 2

\* Largest number of ingredients of a recipe handed to the scaler on its own.
MaxIngredients == 2

\* Number of times the serving process is restarted.
MaxRestarts == 1

\* ---------------------------------------------------------------- fixtures

Reqs == 1 .. NumReq

\* User rows (models.User); every user starts with points = 0 (default=0).
UserIds == {1, 2}

\* Pump rows (models.Pump): pin_number is nullable (0 stands for None; the
\* code tests it by truthiness), is_alcohol marks scoring, seconds_per_50ml is
\* the calibration (default 3.0), here in milliseconds.
PumpTable ==
    [p \in {1, 2, 3} |->
        CASE p = 1 -> [pin_number |-> 17,   is_alcohol |-> TRUE,  seconds_per_50ml |-> 3000]
          [] p = 2 -> [pin_number |-> 27,   is_alcohol |-> FALSE, seconds_per_50ml |-> 3000]
          [] p = 3 -> [pin_number |-> 0,    is_alcohol |-> FALSE, seconds_per_50ml |-> 3000]]

PumpIds == DOMAIN PumpTable

\* Every pump id a recipe may name; 9 has no Pump row.
AllPumpIds == PumpIds \cup {9}

\* GPIO pins wired to a pump.
Pins == {PumpTable[p].pin_number : p \in {q \in PumpIds : PumpTable[q].pin_number # 0}}

\* Recipe rows (models.Recipe): category and the ingredients_json mapping, kept
\* in insertion order as <<pump id, relative volume>> pairs.
\*   1: the sample "Screwdriver" {"1": 2, "2": 4}
\*   2: a highball on an unassigned pump and an unknown pump
\*   3: relative volumes that sum to zero
\*   4: an empty mapping
RecipeTable ==
    [i \in {1, 2, 3, 4} |->
        CASE i = 1 -> [category |-> "classic",  ingredients |-> << <<1, 2>>, <<2, 4>> >>]
          [] i = 2 -> [category |-> "highball", ingredients |-> << <<1, 1>>, <<3, 1>>, <<9, 1>> >>]
          [] i = 3 -> [category |-> "shot",     ingredients |-> << <<1, 0>>, <<2, 0>> >>]
          [] i = 4 -> [category |-> "classic",  ingredients |-> << >>]]

RecipeIds == DOMAIN RecipeTable

\* Recipe ids a client may send; 5 names no Recipe row.
RequestedRecipeIds == RecipeIds \cup {5}

\* MachineState configuration columns (models.MachineState defaults).
classic_target_vol == 110
highball_target_vol == 90
shot_target_vol == 40
taste_amount_ml == 30

\* The target-volume columns of a freshly created MachineState row.
MachineStateDefaults ==
    [classic_target_vol |-> classic_target_vol, highball_target_vol |-> highball_target_vol,
     shot_target_vol |-> shot_target_vol, taste_amount_ml |-> taste_amount_ml]

\* The local `machine_state` of a request that has not loaded the row.
NoMachineState ==
    [classic_target_vol |-> -1, highball_target_vol |-> -1,
     shot_target_vol |-> -1, taste_amount_ml |-> -1]

\* Fixed-point unit: thousandths of a millilitre.
Milli == 10 * 100

\* ------------------------------------------------------------ pure helpers

RECURSIVE SumRel(_)
\* sum(float(ml) for ml in ingredients.values())
SumRel(ings) ==
    IF ings = << >> THEN 0 ELSE Head(ings)[2] + SumRel(Tail(ings))

\* TargetVolume with the category consulted before the taste flag.
TargetVolumeCategoryFirst(ms, is_taste, category) ==
    IF category = "highball" THEN ms.highball_target_vol
    ELSE IF category = "shot" THEN ms.shot_target_vol
    ELSE IF is_taste THEN ms.taste_amount_ml
    ELSE ms.classic_target_vol

\* Target volume selection by taste flag and category, from the loaded
\* MachineState object ms.
TargetVolume(ms, is_taste, category) ==
    IF is_taste THEN ms.taste_amount_ml
    ELSE IF category = "highball" THEN ms.highball_target_vol
    ELSE IF category = "shot" THEN ms.shot_target_vol
    ELSE ms.classic_target_vol

\* is_highball = (category == 'highball' and not is_taste)
IsHighball(is_taste, category) == category = "highball" /\ ~is_taste

\* ScaleIngredients that splits the target evenly over the ingredients,
\* whatever their relative volumes.
ScaleIngredientsEqualSplit(ings, total, target, is_strong) ==
    [i \in 1 .. Len(ings) |->
        LET pid  == ings[i][1]
            base == (target * Milli) \div Len(ings)
            alc  == pid \in PumpIds /\ PumpTable[pid].is_alcohol
        IN  <<pid, IF is_strong /\ alc THEN (base * 3) \div 2 ELSE base>>]

\* ScaleIngredients whose strong mode multiplies every ingredient, alcoholic
\* or not.
ScaleIngredientsStrongAll(ings, total, target, is_strong) ==
    [i \in 1 .. Len(ings) |->
        LET pid  == ings[i][1]
            base == (ings[i][2] * target * Milli) \div total
        IN  <<pid, IF is_strong THEN (base * 3) \div 2 ELSE base>>]

\* calculated[pump_id] = (float(orig_ml) / original_total) * target_volume,
\* then * 1.5 for alcoholic pumps in strong mode.
ScaleIngredients(ings, total, target, is_strong) ==
    [i \in 1 .. Len(ings) |->
        LET pid  == ings[i][1]
            base == (ings[i][2] * target * Milli) \div total
            alc  == pid \in PumpIds /\ PumpTable[pid].is_alcohol
        IN  <<pid, IF is_strong /\ alc THEN (base * 3) \div 2 ELSE base>>]

RECURSIVE SumOf(_)
\* The durations added up, as if the pumps ran one after the other.
SumOf(s) ==
    IF s = << >> THEN 0 ELSE Head(s) + SumOf(Tail(s))

RECURSIVE MaxOf(_)
\* max(durations) if durations else 0
MaxOf(s) ==
    IF s = << >> THEN 0
    ELSE LET m == MaxOf(Tail(s)) IN IF Head(s) > m THEN Head(s) ELSE m

RECURSIVE AlcoholMl(_)
\* Sum of the scaled volumes of the ingredients whose pump is alcoholic.
AlcoholMl(calc) ==
    IF calc = << >> THEN 0
    ELSE LET pid == Head(calc)[1]
             alc == pid \in PumpIds /\ PumpTable[pid].is_alcohol
         IN  (IF alc THEN Head(calc)[2] ELSE 0) + AlcoholMl(Tail(calc))

\* Python round(): round half to even, from thousandths to an integer.
PyRound(x) ==
    LET q == x \div Milli
        f == x % Milli
    IN  IF 2 * f < Milli THEN q
        ELSE IF 2 * f > Milli THEN q + 1
        ELSE IF q % 2 = 0 THEN q ELSE q + 1

\* ---------------------------------------------------------------- responses

NoResp == [status |-> 0, kind |-> "none", points_added |-> 0, new_points |-> 0,
           total_duration |-> 0, is_highball |-> FALSE]

\* 400 {'status': 'error', 'message': '... machine is currently busy.'}
BusyResp == [NoResp EXCEPT !.status = 400, !.kind = "busy"]

\* 400 {'status': 'error', 'message': 'Invalid recipe: Zero volume.'}
InvalidResp == [NoResp EXCEPT !.status = 400, !.kind = "invalid_recipe"]

\* 500 {'status': 'error', 'message': 'Pour failed: ...'}
PourFailedResp == [NoResp EXCEPT !.status = 500, !.kind = "pour_failed"]

\* 500 produced by Flask's errorhandler(500) for an exception that left the view.
UnhandledResp == [NoResp EXCEPT !.status = 500, !.kind = "unhandled"]

\* 200 {'status': 'success', ...}
SuccessResp(pts, newpts, dur, hb) ==
    [status |-> 200, kind |-> "success", points_added |-> pts, new_points |-> newpts,
     total_duration |-> dur, is_highball |-> hb]

\* -------------------------------------------------------------------- state

\* A process that has served its first request on a database whose
\* machine_state table exists: _db_initialized is True.
Booted == [db_initialized |-> TRUE, tables |-> TRUE, restarts |-> 0]

\* The scaler at rest: no input under computation.
NoCalc == [stage |-> "off"]

VARIABLES
    GPIO_AVAILABLE, \* module flag: TRUE with RPi.GPIO (hardware), FALSE in simulation
    seconds_per_50ml, \* Pump.seconds_per_50ml of every pump row, in milliseconds
    timed,          \* pumps with a run_timed thread of the admin pump test asleep
    backend,        \* the running application: TRUE src/backend/app.py, FALSE src/app.py
    boot,           \* the serving process: its _db_initialized flag, the table, restarts
    config,         \* MachineState target-volume columns of the row (committed)
    calc,           \* the scaler and the scoring rule applied to one bounded input
    rowExists,      \* the MachineState row with id 1 exists
    is_pouring,     \* MachineState.is_pouring of that row
    points,         \* User.points, per user (committed)
    history,        \* committed PourHistory rows
    pin,            \* electrical level of every wired GPIO pin
    pc,             \* position of every request in pour_cocktail
    args,           \* recipe_id, is_strong, is_taste as read at the head of try
    rowcount,       \* result.rowcount of the acquire update (-1: not executed)
    calculated,     \* scaled ingredients, <<pump id, thousandths of ml>>
    todo,           \* index of the next ingredient of the fan-out loop
    durations,      \* the durations list of the fan-out loop
    threads,        \* state of the dispense thread started per pump
    primed,         \* pumps whose pin this request drove through initialize_pump_pin
    exc,            \* the exception raised in this request, if any
    retval,         \* the value of the return statement that ran in try / except
    resp,           \* what the client receives
    relAttempts,    \* release writes this request attempted and saw fail (a local)
    released,       \* release writes of this request that were committed
    machine_state   \* the MachineState object loaded by get_instance (a local)

vars == <<GPIO_AVAILABLE, seconds_per_50ml, timed, backend, boot, config, calc, rowExists, is_pouring, points, history,
          pin, pc, args, rowcount, calculated, todo, durations, threads, primed, exc,
          retval, resp, relAttempts, released, machine_state>>

\* duration = (ml_amount / 50.0) * pump.seconds_per_50ml, in milliseconds.
Duration(ml, pid) == (ml * seconds_per_50ml[pid]) \div (50 * Milli)

\* The calibration column as the pump rows were created.
Calibrated == [p \in PumpIds |-> PumpTable[p].seconds_per_50ml]

NoArgs == [recipe_id |-> 0, is_strong |-> FALSE, is_taste |-> FALSE]

NoThreads == [p \in AllPumpIds |-> "none"]

\* Positions at which a request owns the lock: from the successful acquire to
\* the end of its release step.
HeldPcs == {"locked", "try", "fanout", "score", "except", "finally", "retry"}

Holders == {r \in Reqs : pc[r] \in HeldPcs}

InitLocals ==
    /\ pc = [r \in Reqs |-> "idle"]
    /\ args = [r \in Reqs |-> NoArgs]
    /\ rowcount = [r \in Reqs |-> -1]
    /\ calculated = [r \in Reqs |-> << >>]
    /\ todo = [r \in Reqs |-> 1]
    /\ durations = [r \in Reqs |-> << >>]
    /\ threads = [r \in Reqs |-> NoThreads]
    /\ primed = [r \in Reqs |-> {}]
    /\ exc = [r \in Reqs |-> "none"]
    /\ retval = [r \in Reqs |-> NoResp]
    /\ resp = [r \in Reqs |-> NoResp]
    /\ relAttempts = [r \in Reqs |-> 0]
    /\ released = [r \in Reqs |-> 0]
    /\ machine_state = [r \in Reqs |-> NoMachineState]

\* The machine after init-db / ensure_db_initialized: the MachineState row
\* exists with is_pouring = False, users have no points, no history, and the
\* process runs either on the Pi (hardware) or without RPi.GPIO (simulation).
Init ==
    /\ GPIO_AVAILABLE \in BOOLEAN
    /\ seconds_per_50ml = Calibrated
    /\ timed = {}
    /\ backend \in BOOLEAN
    /\ boot = Booted
    /\ config = MachineStateDefaults
    /\ calc = NoCalc
    /\ rowExists = TRUE
    /\ is_pouring = FALSE
    /\ points = [u \in UserIds |-> 0]
    /\ history = {}
    /\ pin = [n \in Pins |-> "LOW"]
    /\ InitLocals

\* A dispense thread of r has returned from pour_ingredient (or never started).
Finished(r, p) == threads[r][p] \in {"none", "ok", "fail"}

\* The view function returns (or an exception leaves it): the client gets
\* `response`, and the frame's locals go out of scope.  Thread objects that
\* have terminated go with them; a thread still running keeps running.
Return(r, response) ==
    /\ pc' = [pc EXCEPT ![r] = "done"]
    /\ resp' = [resp EXCEPT ![r] = response]
    /\ args' = [args EXCEPT ![r] = NoArgs]
    /\ calculated' = [calculated EXCEPT ![r] = << >>]
    /\ todo' = [todo EXCEPT ![r] = 1]
    /\ durations' = [durations EXCEPT ![r] = << >>]
    /\ primed' = [primed EXCEPT ![r] = {}]
    /\ exc' = [exc EXCEPT ![r] = "none"]
    /\ retval' = [retval EXCEPT ![r] = NoResp]
    /\ relAttempts' = [relAttempts EXCEPT ![r] = 0]
    /\ machine_state' = [machine_state EXCEPT ![r] = NoMachineState]
    /\ threads' = [threads EXCEPT ![r] =
                      [p \in AllPumpIds |-> IF Finished(r, p) THEN "none" ELSE @[p]]]

\* ---------------------------------------------------------- pour_cocktail

\* Acquire with the `is_pouring == False` condition missing from the WHERE
\* clause: the update matches the row whoever holds the lock.
AcquireUnconditional(r) ==
    /\ pc[r] = "idle"
    /\ boot.tables
    /\ \A q \in Reqs : q < r => pc[q] # "idle"
    /\ IF rowExists
       THEN /\ is_pouring' = TRUE
            /\ rowcount' = [rowcount EXCEPT ![r] = 1]
            /\ pc' = [pc EXCEPT ![r] = "locked"]
            /\ UNCHANGED <<args, calculated, todo, durations, threads, primed, exc,
                           retval, resp, relAttempts, machine_state>>
       ELSE /\ is_pouring' = is_pouring
            /\ rowcount' = [rowcount EXCEPT ![r] = 0]
            /\ Return(r, BusyResp)
    /\ UNCHANGED <<GPIO_AVAILABLE, seconds_per_50ml, timed, backend, boot, config, calc,
                   rowExists, points, history, pin, released>>

\* Acquire with the busy return placed inside the try block, so that the
\* finally clause of a request that lost the race runs the release write.
AcquireBusyInsideTry(r) ==
    /\ pc[r] = "idle"
    /\ boot.tables
    /\ \A q \in Reqs : q < r => pc[q] # "idle"
    /\ IF rowExists /\ ~is_pouring
       THEN /\ is_pouring' = TRUE
            /\ rowcount' = [rowcount EXCEPT ![r] = 1]
            /\ pc' = [pc EXCEPT ![r] = "locked"]
            /\ retval' = retval
       ELSE /\ is_pouring' = is_pouring
            /\ rowcount' = [rowcount EXCEPT ![r] = 0]
            /\ pc' = [pc EXCEPT ![r] = "finally"]
            /\ retval' = [retval EXCEPT ![r] = BusyResp]
    /\ UNCHANGED <<GPIO_AVAILABLE, seconds_per_50ml, timed, backend, boot, config, calc, machine_state,
                   rowExists, points, history, pin, released, args,
                   calculated, todo, durations, threads, primed, exc, resp, relAttempts>>

\* The atomic lock: UPDATE machine_state SET is_pouring = 1 WHERE id = 1 AND
\* is_pouring = 0; commit; then `if result.rowcount == 0: return busy, 400`.
\* One statement of the store, so one step.  The store serialises these
\* statements; requests are numbered in the order in which it executes them.
\* The statement needs the machine_state table.
Acquire(r) ==
    /\ pc[r] = "idle"
    /\ boot.tables
    /\ \A q \in Reqs : q < r => pc[q] # "idle"
    /\ IF rowExists /\ ~is_pouring
       THEN /\ is_pouring' = TRUE
            /\ rowcount' = [rowcount EXCEPT ![r] = 1]
            /\ pc' = [pc EXCEPT ![r] = "locked"]
            /\ UNCHANGED <<args, calculated, todo, durations, threads, primed, exc,
                           retval, resp, relAttempts, machine_state>>
       ELSE /\ is_pouring' = is_pouring
            /\ rowcount' = [rowcount EXCEPT ![r] = 0]
            /\ Return(r, BusyResp)
    /\ UNCHANGED <<GPIO_AVAILABLE, seconds_per_50ml, timed, backend, boot, config, calc,
                   rowExists, points, history, pin, released>>

\* MachineState.get_instance(): the first row, created with id 1 and
\* is_pouring = False when the table is empty.
get_instance ==
    /\ rowExists' = TRUE
    /\ is_pouring' = IF rowExists THEN is_pouring ELSE FALSE

\* machine_state = MachineState.get_instance(), the statement between the
\* acquire and the try block.  MachineState.query.first() is a read of the
\* store and may raise; nothing encloses it, so the exception leaves the view
\* and Flask answers through errorhandler(500).
LoadMachineState(r) ==
    /\ pc[r] = "locked"
    /\ \E ok \in BOOLEAN :
          IF ok
          THEN /\ get_instance
               /\ machine_state' = [machine_state EXCEPT ![r] = config]
               /\ pc' = [pc EXCEPT ![r] = "try"]
               /\ UNCHANGED <<args, calculated, todo, durations, threads, primed, exc,
                              retval, resp, relAttempts>>
          ELSE /\ Return(r, UnhandledResp)
               /\ UNCHANGED <<rowExists, is_pouring>>
    /\ UNCHANGED <<GPIO_AVAILABLE, seconds_per_50ml, timed, backend, boot, config, calc,
                   points, history, pin, rowcount, released>>

\* LoadAndScale without the `if original_total == 0` rejection: a non-empty
\* zero-sum recipe then divides by zero (ZeroDivisionError, caught), an empty
\* recipe scales to an empty mapping and goes on.
LoadAndScaleNoZeroCheck(r) ==
    /\ pc[r] = "try"
    /\ \E rid \in RequestedRecipeIds, strong \in BOOLEAN, taste \in BOOLEAN :
          /\ args' = [args EXCEPT ![r] = [recipe_id |-> rid, is_strong |-> strong,
                                          is_taste |-> taste]]
          /\ IF rid \notin RecipeIds
             THEN /\ exc' = [exc EXCEPT ![r] = "NotFound"]
                  /\ pc' = [pc EXCEPT ![r] = "except"]
                  /\ UNCHANGED <<calculated, retval>>
             ELSE LET ings   == RecipeTable[rid].ingredients
                      target == TargetVolume(machine_state[r], taste, RecipeTable[rid].category)
                      total  == SumRel(ings)
                  IN  IF total = 0 /\ ings # << >>
                      THEN /\ exc' = [exc EXCEPT ![r] = "ZeroDivisionError"]
                           /\ pc' = [pc EXCEPT ![r] = "except"]
                           /\ UNCHANGED <<calculated, retval>>
                      ELSE /\ calculated' = [calculated EXCEPT ![r] =
                                                ScaleIngredients(ings, total, target, strong)]
                           /\ pc' = [pc EXCEPT ![r] = "fanout"]
                           /\ UNCHANGED <<retval, exc>>
    /\ machine_state' = [machine_state EXCEPT ![r] = NoMachineState]
    /\ UNCHANGED <<GPIO_AVAILABLE, seconds_per_50ml, timed, backend, boot, config, calc,
                   rowExists, is_pouring, points, history, pin, rowcount,
                   todo, durations, threads, primed, resp, relAttempts, released>>

\* The head of the try block: read the flags, Recipe.query.get_or_404, select
\* the target volume, reject a zero total, scale, apply strong mode.
\* get_or_404 raises NotFound for an unknown id; NotFound is an Exception, so
\* the handler's own `except Exception` catches it.
LoadAndScale(r) ==
    /\ pc[r] = "try"
    /\ \E rid \in RequestedRecipeIds, strong \in BOOLEAN, taste \in BOOLEAN :
          /\ args' = [args EXCEPT ![r] = [recipe_id |-> rid, is_strong |-> strong,
                                          is_taste |-> taste]]
          /\ IF rid \notin RecipeIds
             THEN /\ exc' = [exc EXCEPT ![r] = "NotFound"]
                  /\ pc' = [pc EXCEPT ![r] = "except"]
                  /\ UNCHANGED <<calculated, retval>>
             ELSE LET ings   == RecipeTable[rid].ingredients
                      target == TargetVolume(machine_state[r], taste, RecipeTable[rid].category)
                      total  == SumRel(ings)
                  IN  IF total = 0
                      THEN /\ retval' = [retval EXCEPT ![r] = InvalidResp]
                           /\ pc' = [pc EXCEPT ![r] = "finally"]
                           /\ UNCHANGED <<calculated, exc>>
                      ELSE /\ calculated' = [calculated EXCEPT ![r] =
                                                ScaleIngredients(ings, total, target, strong)]
                           /\ pc' = [pc EXCEPT ![r] = "fanout"]
                           /\ UNCHANGED <<retval, exc>>
    /\ machine_state' = [machine_state EXCEPT ![r] = NoMachineState]
    /\ UNCHANGED <<GPIO_AVAILABLE, seconds_per_50ml, timed, backend, boot, config, calc,
                   rowExists, is_pouring, points, history, pin, rowcount,
                   todo, durations, threads, primed, resp, relAttempts, released>>

\* The pump has a pin the driver can drive (`GPIO_AVAILABLE and pin_number`).
Drivable(pid) == GPIO_AVAILABLE /\ PumpTable[pid].pin_number # 0

\* initialize_pump_pin(pin_number): only with hardware and an assigned pin,
\* GPIO.setup(OUT) and GPIO.output(LOW).
PrimedPin(pid) ==
    IF Drivable(pid) THEN [pin EXCEPT ![PumpTable[pid].pin_number] = "LOW"] ELSE pin

\* One iteration of the fan-out loop: skip an ingredient whose pump has no
\* row; otherwise prime the pin, compute the duration, start the thread.
FanOut(r) ==
    /\ pc[r] = "fanout"
    /\ todo[r] <= Len(calculated[r])
    /\ LET pid == calculated[r][todo[r]][1]
           ml  == calculated[r][todo[r]][2]
       IN  IF pid \notin PumpIds
           THEN UNCHANGED <<pin, primed, durations, threads>>
           ELSE /\ pin' = PrimedPin(pid)
                /\ primed' = [primed EXCEPT ![r] = IF Drivable(pid) THEN @ \cup {pid} ELSE @]
                /\ durations' = [durations EXCEPT ![r] = Append(@, Duration(ml, pid))]
                /\ threads' = [threads EXCEPT ![r][pid] = "started"]
    /\ todo' = [todo EXCEPT ![r] = @ + 1]
    /\ UNCHANGED <<GPIO_AVAILABLE, seconds_per_50ml, timed, backend, boot, config, calc, machine_state,
                   rowExists, is_pouring, points, history, pc, args,
                   rowcount, calculated, exc, retval, resp, relAttempts, released>>

\* A join loop that does not wait: the view goes on to the scoring code
\* whatever its threads are doing.
JoinNoWait(r) ==
    /\ pc[r] = "fanout"
    /\ todo[r] > Len(calculated[r])
    /\ pc' = [pc EXCEPT ![r] = "score"]
    /\ UNCHANGED <<GPIO_AVAILABLE, seconds_per_50ml, timed, backend, boot, config, calc, machine_state,
                   rowExists, is_pouring, points, history, pin, args,
                   rowcount, calculated, todo, durations, threads, primed, exc, retval,
                   resp, relAttempts, released>>

\* `for thread in threads: thread.join()`: passes once every started thread
\* has terminated.
Join(r) ==
    /\ pc[r] = "fanout"
    /\ todo[r] > Len(calculated[r])
    /\ \A p \in AllPumpIds : Finished(r, p)
    /\ pc' = [pc EXCEPT ![r] = "score"]
    /\ UNCHANGED <<GPIO_AVAILABLE, seconds_per_50ml, timed, backend, boot, config, calc, machine_state,
                   rowExists, is_pouring, points, history, pin, args,
                   rowcount, calculated, todo, durations, threads, primed, exc, retval,
                   resp, relAttempts, released>>

\* PointsEarned that truncates the alcohol volume instead of rounding it.
PointsEarnedTruncated(in_backend, calculated_ingredients, is_strong) ==
    LET points_earned == AlcoholMl(calculated_ingredients) \div Milli
    IN  IF in_backend /\ is_strong THEN 2 * points_earned ELSE points_earned

\* points_earned = round(total_alcohol_ml); src/backend/app.py then doubles
\* it in strong mode (`points_earned = round(points_earned * 2)`).
PointsEarned(in_backend, calculated_ingredients, is_strong) ==
    LET points_earned == PyRound(AlcoholMl(calculated_ingredients))
    IN  IF in_backend /\ is_strong THEN 2 * points_earned ELSE points_earned

\* Score with the PourHistory row committed on its own before the points:
\* a failing points commit then leaves the row behind.
ScoreHistoryCommittedFirst(r) ==
    /\ pc[r] = "score"
    /\ LET a   == args[r]
           pts == PointsEarned(backend, calculated[r], a.is_strong)
           hb  == IsHighball(a.is_taste, RecipeTable[a.recipe_id].category)
       IN  \E u \in UserIds, commit_ok \in BOOLEAN :
              /\ history' = history \cup
                    {[req |-> r, user_id |-> u, recipe_id |-> a.recipe_id,
                      is_strong |-> a.is_strong, points_awarded |-> pts]}
              /\ IF commit_ok
                 THEN /\ points' = [points EXCEPT ![u] = @ + pts]
                      /\ retval' = [retval EXCEPT ![r] =
                            SuccessResp(pts, points[u] + pts, MaxOf(durations[r]), hb)]
                      /\ pc' = [pc EXCEPT ![r] = "finally"]
                      /\ exc' = exc
                 ELSE /\ exc' = [exc EXCEPT ![r] = "storage"]
                      /\ pc' = [pc EXCEPT ![r] = "except"]
                      /\ UNCHANGED <<points, retval>>
    /\ UNCHANGED <<GPIO_AVAILABLE, seconds_per_50ml, timed, backend, boot, config, calc, machine_state,
                   rowExists, is_pouring, pin, args, rowcount, calculated,
                   todo, durations, threads, primed, resp, relAttempts, released>>

\* Scoring: total_duration, points, current_user.points += points_earned, the
\* PourHistory row, db.session.commit(), the success response.  The commit
\* either persists points and row together or raises, and then the rollback
\* of the except block discards both.  current_user is read here first.
Score(r) ==
    /\ pc[r] = "score"
    /\ LET a   == args[r]
           pts == PointsEarned(backend, calculated[r], a.is_strong)
           hb  == IsHighball(a.is_taste, RecipeTable[a.recipe_id].category)
       IN  \E u \in UserIds, commit_ok \in BOOLEAN :
              IF commit_ok
              THEN /\ points' = [points EXCEPT ![u] = @ + pts]
                   /\ history' = history \cup
                         {[req |-> r, user_id |-> u, recipe_id |-> a.recipe_id,
                           is_strong |-> a.is_strong, points_awarded |-> pts]}
                   /\ retval' = [retval EXCEPT ![r] =
                         SuccessResp(pts, points[u] + pts, MaxOf(durations[r]), hb)]
                   /\ pc' = [pc EXCEPT ![r] = "finally"]
                   /\ exc' = exc
              ELSE /\ exc' = [exc EXCEPT ![r] = "storage"]
                   /\ pc' = [pc EXCEPT ![r] = "except"]
                   /\ UNCHANGED <<points, history, retval>>
    /\ UNCHANGED <<GPIO_AVAILABLE, seconds_per_50ml, timed, backend, boot, config, calc, machine_state,
                   rowExists, is_pouring, pin, args, rowcount, calculated,
                   todo, durations, threads, primed, resp, relAttempts, released>>

\* An exception raised inside the try block by a statement other than the
\* commit: request.get_json / the Recipe query at its head, Pump.query.get,
\* initialize_pump_pin or Thread.start inside the fan-out loop.
BodyRaises(r) ==
    /\ \/ pc[r] = "try"
       \/ pc[r] = "fanout" /\ todo[r] <= Len(calculated[r])
    /\ exc' = [exc EXCEPT ![r] = "storage"]
    /\ pc' = [pc EXCEPT ![r] = "except"]
    /\ UNCHANGED <<GPIO_AVAILABLE, seconds_per_50ml, timed, backend, boot, config, calc, machine_state,
                   rowExists, is_pouring, points, history, pin, args,
                   rowcount, calculated, todo, durations, threads, primed, retval, resp,
                   relAttempts, released>>

\* except Exception: traceback, db.session.rollback(), return 'Pour failed', 500.
Except(r) ==
    /\ pc[r] = "except"
    /\ retval' = [retval EXCEPT ![r] = PourFailedResp]
    /\ pc' = [pc EXCEPT ![r] = "finally"]
    /\ UNCHANGED <<GPIO_AVAILABLE, seconds_per_50ml, timed, backend, boot, config, calc, machine_state,
                   rowExists, is_pouring, points, history, pin, args,
                   rowcount, calculated, todo, durations, threads, primed, exc, resp,
                   relAttempts, released>>

\* finally, first attempt: UPDATE machine_state SET is_pouring = 0 WHERE id = 1;
\* commit.  A storage error sends the handler into its inner retry.
Release(r) ==
    /\ pc[r] = "finally"
    /\ \E ok \in BOOLEAN :
          IF ok
          THEN /\ is_pouring' = FALSE
               /\ released' = [released EXCEPT ![r] = @ + 1]
               /\ Return(r, retval[r])
          ELSE /\ pc' = [pc EXCEPT ![r] = "retry"]
               /\ relAttempts' = [relAttempts EXCEPT ![r] = @ + 1]
               /\ UNCHANGED <<is_pouring, released, args, calculated, todo, durations,
                              threads, primed, exc, retval, resp, machine_state>>
    /\ UNCHANGED <<GPIO_AVAILABLE, seconds_per_50ml, timed, backend, boot, config, calc,
                   rowExists, points, history, pin, rowcount>>

\* ReleaseRetry without the inner try: a second storage error leaves the
\* finally clause, replaces the pending return value and reaches Flask.
ReleaseRetryRaises(r) ==
    /\ pc[r] = "retry"
    /\ \E ok \in BOOLEAN :
          IF ok
          THEN /\ is_pouring' = FALSE
               /\ released' = [released EXCEPT ![r] = @ + 1]
               /\ Return(r, retval[r])
          ELSE /\ UNCHANGED <<is_pouring, released>>
               /\ Return(r, UnhandledResp)
    /\ UNCHANGED <<GPIO_AVAILABLE, seconds_per_50ml, timed, backend, boot, config, calc,
                   rowExists, points, history, pin, rowcount>>

\* finally, second attempt after rollback; a second storage error is printed
\* and swallowed, and the return value of try / except reaches the client.
ReleaseRetry(r) ==
    /\ pc[r] = "retry"
    /\ \E ok \in BOOLEAN :
          IF ok
          THEN /\ is_pouring' = FALSE
               /\ released' = [released EXCEPT ![r] = @ + 1]
          ELSE UNCHANGED <<is_pouring, released>>
    /\ Return(r, retval[r])
    /\ UNCHANGED <<GPIO_AVAILABLE, seconds_per_50ml, timed, backend, boot, config, calc,
                   rowExists, points, history, pin, rowcount>>

\* ---------------------------------------------------------- pour_ingredient

\* What is left of a thread that returned `result`: nothing once the request
\* that started it has returned, the thread object with its outcome before.
Ended(r, result) == IF pc[r] = "done" THEN "none" ELSE result

\* Simulation mode: sleep(duration), return True; no electrical I/O.
SimRun(r, p) ==
    /\ ~GPIO_AVAILABLE
    /\ threads[r][p] = "started"
    /\ threads' = [threads EXCEPT ![r][p] = Ended(r, "ok")]
    /\ UNCHANGED <<GPIO_AVAILABLE, seconds_per_50ml, timed, backend, boot, config, calc, machine_state,
                   rowExists, is_pouring, points, history, pin, pc, args,
                   rowcount, calculated, todo, durations, primed, exc, retval, resp,
                   relAttempts, released>>

\* Hardware mode, no pin assigned: SKIPPED, return False.
SkipNoPin(r, p) ==
    /\ GPIO_AVAILABLE
    /\ threads[r][p] = "started"
    /\ PumpTable[p].pin_number = 0
    /\ threads' = [threads EXCEPT ![r][p] = Ended(r, "fail")]
    /\ UNCHANGED <<GPIO_AVAILABLE, seconds_per_50ml, timed, backend, boot, config, calc, machine_state,
                   rowExists, is_pouring, points, history, pin, pc, args,
                   rowcount, calculated, todo, durations, primed, exc, retval, resp,
                   relAttempts, released>>

\* Hardware mode: GPIO.setup(OUT, initial=LOW); GPIO.output(HIGH).
PumpOn(r, p) ==
    /\ GPIO_AVAILABLE
    /\ threads[r][p] = "started"
    /\ PumpTable[p].pin_number # 0
    /\ pin' = [pin EXCEPT ![PumpTable[p].pin_number] = "HIGH"]
    /\ threads' = [threads EXCEPT ![r][p] = "on"]
    /\ UNCHANGED <<GPIO_AVAILABLE, seconds_per_50ml, timed, backend, boot, config, calc, machine_state,
                   rowExists, is_pouring, points, history, pc, args,
                   rowcount, calculated, todo, durations, primed, exc, retval, resp,
                   relAttempts, released>>

\* Hardware mode: after sleep(duration), GPIO.output(LOW), return True.
PumpOff(r, p) ==
    /\ GPIO_AVAILABLE
    /\ threads[r][p] = "on"
    /\ pin' = [pin EXCEPT ![PumpTable[p].pin_number] = "LOW"]
    /\ threads' = [threads EXCEPT ![r][p] = Ended(r, "ok")]
    /\ UNCHANGED <<GPIO_AVAILABLE, seconds_per_50ml, timed, backend, boot, config, calc, machine_state,
                   rowExists, is_pouring, points, history, pc, args,
                   rowcount, calculated, todo, durations, primed, exc, retval, resp,
                   relAttempts, released>>

\* PumpFault whose error takes the sibling threads of the pour down with it.
PumpFaultAbortsSiblings(r, p) ==
    /\ GPIO_AVAILABLE
    /\ threads[r][p] \in {"started", "on"}
    /\ PumpTable[p].pin_number # 0
    /\ pin' = [pin EXCEPT ![PumpTable[p].pin_number] = "LOW"]
    /\ threads' = [threads EXCEPT ![r] =
                      [q \in AllPumpIds |->
                          IF threads[r][q] \in {"started", "on"} THEN Ended(r, "fail")
                          ELSE threads[r][q]]]
    /\ UNCHANGED <<GPIO_AVAILABLE, seconds_per_50ml, timed, backend, boot, config, calc, machine_state,
                   rowExists, is_pouring, points, history, pc, args,
                   rowcount, calculated, todo, durations, primed, exc, retval, resp,
                   relAttempts, released>>

\* Hardware mode: a GPIO call raises (setup or output(HIGH) before the pump
\* runs, output(LOW) after it ran).  The except block tries GPIO.output(LOW)
\* and swallows a second error, then returns False.
PumpFault(r, p) ==
    /\ GPIO_AVAILABLE
    /\ threads[r][p] \in {"started", "on"}
    /\ PumpTable[p].pin_number # 0
    /\ \E recovered \in BOOLEAN :
          pin' = IF recovered THEN [pin EXCEPT ![PumpTable[p].pin_number] = "LOW"] ELSE pin
    /\ threads' = [threads EXCEPT ![r][p] = Ended(r, "fail")]
    /\ UNCHANGED <<GPIO_AVAILABLE, seconds_per_50ml, timed, backend, boot, config, calc, machine_state,
                   rowExists, is_pouring, points, history, pc, args,
                   rowcount, calculated, todo, durations, primed, exc, retval, resp,
                   relAttempts, released>>

\* ------------------------------------------------------------ specification

Next ==
    \/ \E r \in Reqs : Acquire(r)
    \/ \E r \in Reqs : LoadMachineState(r)
    \/ \E r \in Reqs : LoadAndScale(r)
    \/ \E r \in Reqs : FanOut(r)
    \/ \E r \in Reqs : Join(r)
    \/ \E r \in Reqs : Score(r)
    \/ \E r \in Reqs : BodyRaises(r)
    \/ \E r \in Reqs : Except(r)
    \/ \E r \in Reqs : Release(r)
    \/ \E r \in Reqs : ReleaseRetry(r)
    \/ \E r \in Reqs, p \in PumpIds : SimRun(r, p)
    \/ \E r \in Reqs, p \in PumpIds : SkipNoPin(r, p)
    \/ \E r \in Reqs, p \in PumpIds : PumpOn(r, p)
    \/ \E r \in Reqs, p \in PumpIds : PumpOff(r, p)
    \/ \E r \in Reqs, p \in PumpIds : PumpFault(r, p)

Spec == Init /\ [][Next]_vars

\* ------------------------------------------------------- fair scheduling

\* The steps of the view function of request r (its worker thread).
Handler(r) ==
    \/ Acquire(r) \/ LoadMachineState(r) \/ LoadAndScale(r) \/ FanOut(r) \/ Join(r)
    \/ Score(r) \/ BodyRaises(r) \/ Except(r) \/ Release(r) \/ ReleaseRetry(r)

\* The steps of the dispense thread of request r for pump p.
Run(r, p) ==
    \/ SimRun(r, p) \/ SkipNoPin(r, p) \/ PumpOn(r, p) \/ PumpOff(r, p) \/ PumpFault(r, p)

\* Every thread of the process that can take a step is scheduled in the end;
\* time.sleep(duration) returns, so a pump that is ON reaches its OFF step.
SpecFair ==
    /\ Spec
    /\ \A r \in Reqs : WF_vars(Handler(r))
    /\ \A r \in Reqs : \A p \in PumpIds : WF_vars(Run(r, p))

\* ------------------------------------------- a store without the singleton

\* A database whose machine_state table is still empty (src/app.py creates
\* the row only in the init-db command, and only into an empty database).
InitLazy ==
    /\ GPIO_AVAILABLE \in BOOLEAN
    /\ seconds_per_50ml = Calibrated
    /\ timed = {}
    /\ backend \in BOOLEAN
    /\ boot = Booted
    /\ config = MachineStateDefaults
    /\ calc = NoCalc
    /\ rowExists = FALSE
    /\ is_pouring = FALSE
    /\ points = [u \in UserIds |-> 0]
    /\ history = {}
    /\ pin = [n \in Pins |-> "LOW"]
    /\ InitLocals

\* Any other view that calls MachineState.get_instance() (menu, get_pumps,
\* the status endpoints): the first access that creates the row.
OtherView ==
    /\ boot.db_initialized /\ boot.tables
    /\ ~rowExists
    /\ get_instance
    /\ UNCHANGED <<GPIO_AVAILABLE, seconds_per_50ml, timed, backend, boot, config, calc, machine_state,
                   points, history, pin, pc, args, rowcount, calculated,
                   todo, durations, threads, primed, exc, retval, resp, relAttempts,
                   released>>

NextLazy == Next \/ OtherView

SpecLazy == InitLazy /\ [][NextLazy]_vars

\* ------------------------------------------------ the admin at the console

\* Recipe.category is a free string column: the three known categories and one
\* the code does not know.
Categories == {"classic", "highball", "shot", "tiki"}

\* JSON values an admin may post as `volume`: the number 0 and the string
\* "0".  `not volume` is true of the number only; int() gives n for both.
VolumeInputs ==
    {[json |-> "number", n |-> 0], [json |-> "string", n |-> 0]}

\* POST /api/admin/category-volumes: get_instance; 400 when `not volume`;
\* volume = int(volume); the column of the named category is set, whatever the
\* sign of the value; 400 for any other category; commit.
admin_category_volumes ==
    /\ get_instance
    /\ \E category \in Categories, volume \in VolumeInputs :
          IF volume.json = "number" /\ volume.n = 0
          THEN UNCHANGED config
          ELSE config' =
                 CASE category = "classic"  -> [config EXCEPT !.classic_target_vol = volume.n]
                   [] category = "highball" -> [config EXCEPT !.highball_target_vol = volume.n]
                   [] category = "shot"     -> [config EXCEPT !.shot_target_vol = volume.n]
                   [] OTHER                 -> config
    /\ UNCHANGED <<GPIO_AVAILABLE, seconds_per_50ml, timed, backend, boot, calc, machine_state, points, history, pin, pc,
                   args, rowcount, calculated, todo, durations, threads, primed, exc,
                   retval, resp, relAttempts, released>>

NextAdmin == Next \/ admin_category_volumes

\* src/app.py with its admin console in use.
InitAdmin == Init /\ ~backend

SpecAdmin == InitAdmin /\ [][NextAdmin]_vars

\* ------------------------------------------- the admin console on its own

\* JSON values an admin may post as `taste_amount_ml`: the numbers 0, 9, 10,
\* 100 and 101.
TasteInputs == {0, 9, 10, 100, 101}

\* POST /api/admin/taste-amount: get_instance; 400 when `not amount`; 400
\* when int(amount) is outside 10..100; otherwise the column is set.
admin_taste_amount ==
    /\ get_instance
    /\ \E amount \in TasteInputs :
          IF amount = 0 \/ amount < 10 \/ amount > 100
          THEN UNCHANGED config
          ELSE config' = [config EXCEPT !.taste_amount_ml = amount]
    /\ UNCHANGED <<GPIO_AVAILABLE, seconds_per_50ml, timed, backend, boot, calc, machine_state,
                   points, history, pin, pc, args, rowcount, calculated, todo, durations,
                   threads, primed, exc, retval, resp, relAttempts, released>>

\* Values an admin may post for the field seconds_per_50ml, in milliseconds:
\* -3.0, 0 and 1.5.
UpdateValues == {-3000, 0, 1500}

\* POST /api/admin/update with entity 'pump' and field 'seconds_per_50ml':
\* value = float(value); setattr(pump, field, value); commit.
admin_update_entity ==
    /\ \E entity_id \in PumpIds, value \in UpdateValues :
          seconds_per_50ml' = [seconds_per_50ml EXCEPT ![entity_id] = value]
    /\ UNCHANGED <<GPIO_AVAILABLE, timed, backend, boot, config, calc, machine_state, rowExists,
                   is_pouring, points, history, pin, pc, args, rowcount, calculated, todo,
                   durations, threads, primed, exc, retval, resp, relAttempts, released>>

\* Run times (seconds) and measured volumes (ml) an admin may post to the
\* calibration endpoint.
CalibrateDurations == {0, 5}

CalibrateVolumes == {0, 30, 50, 1000}

\* POST /api/admin/pump/<id>/calibrate: 400 when ml_measured is missing or
\* not positive; seconds_per_50ml = round((duration / ml_measured) * 50, 2);
\* outside 0.5 .. 30 the value is reported as unusual and not applied;
\* otherwise it is stored.
admin_calibrate_pump ==
    /\ \E pump_id \in PumpIds, duration \in CalibrateDurations,
          ml_measured \in CalibrateVolumes :
          IF ml_measured <= 0
          THEN UNCHANGED seconds_per_50ml
          ELSE LET centis == PyRound((duration * 50 * 100 * Milli) \div ml_measured)
                   value  == centis * 10
               IN  IF value < 500 \/ value > 30 * Milli
                   THEN UNCHANGED seconds_per_50ml
                   ELSE seconds_per_50ml' = [seconds_per_50ml EXCEPT ![pump_id] = value]
    /\ UNCHANGED <<GPIO_AVAILABLE, timed, backend, boot, config, calc, machine_state, rowExists,
                   is_pouring, points, history, pin, pc, args, rowcount, calculated, todo,
                   durations, threads, primed, exc, retval, resp, relAttempts, released>>

\* Scaled volumes (thousandths of ml) of an ingredient of a pour.
ScaledVolumes == {0, 30 * Milli}

\* The duration statement of the fan-out loop for one pump and one volume.
CalcDuration ==
    /\ \E pump_id \in PumpIds, ml_amount \in ScaledVolumes :
          calc' = [stage |-> "duration", pump_id |-> pump_id, ml_amount |-> ml_amount,
                   duration |-> Duration(ml_amount, pump_id)]
    /\ UNCHANGED <<GPIO_AVAILABLE, seconds_per_50ml, timed, backend, boot, config, machine_state,
                   rowExists, is_pouring, points, history, pin, pc, args, rowcount,
                   calculated, todo, durations, threads, primed, exc, retval, resp,
                   relAttempts, released>>

\* src/backend/app.py at rest, with its admin at the console.
InitConsole == Init /\ ~GPIO_AVAILABLE /\ backend

NextConsole ==
    \/ admin_category_volumes
    \/ admin_taste_amount
    \/ admin_update_entity
    \/ admin_calibrate_pump
    \/ CalcDuration

SpecConsole == InitConsole /\ [][NextConsole]_vars

\* ------------------------------------------------- the admin pump test

\* The `action` field of a pump test request.
TestActions == {"on", "off", "timed"}

\* POST /api/admin/pump/<id>/test.  400 for a pump without a pin.  'on':
\* GPIO.setup, GPIO.output(HIGH); 'off': GPIO.output(LOW); 'timed': a thread
\* running run_timed is started, which switches the pin HIGH and sleeps.  In
\* simulation no pin is touched.  A GPIO call may raise: the except block
\* then tries GPIO.output(LOW) and swallows a second error.  The endpoint
\* neither reads nor writes is_pouring.
admin_test_pump ==
    /\ \E pump_id \in PumpIds, action \in TestActions, raises \in BOOLEAN,
          recovered \in BOOLEAN :
          LET pin_number == PumpTable[pump_id].pin_number
          IN  IF pin_number = 0
              THEN UNCHANGED <<pin, timed>>
              ELSE IF ~GPIO_AVAILABLE
              THEN /\ pin' = pin
                   /\ timed' = IF action = "timed" THEN timed \cup {pump_id} ELSE timed
              ELSE IF raises /\ action # "timed"
              THEN /\ pin' = IF recovered THEN [pin EXCEPT ![pin_number] = "LOW"] ELSE pin
                   /\ timed' = timed
              ELSE /\ pin' = [pin EXCEPT ![pin_number] =
                                 IF action = "off" THEN "LOW" ELSE "HIGH"]
                   /\ timed' = IF action = "timed" THEN timed \cup {pump_id} ELSE timed
    /\ UNCHANGED <<GPIO_AVAILABLE, seconds_per_50ml, backend, boot, config, calc,
                   machine_state, rowExists, is_pouring, points, history, pc, args,
                   rowcount, calculated, todo, durations, threads, primed, exc, retval,
                   resp, relAttempts, released>>

\* run_timed after its sleep: GPIO.output(LOW) on hardware, a log line in
\* simulation; the thread ends.
run_timed(pump_id) ==
    /\ pump_id \in timed
    /\ timed' = timed \ {pump_id}
    /\ pin' = IF GPIO_AVAILABLE
              THEN [pin EXCEPT ![PumpTable[pump_id].pin_number] = "LOW"]
              ELSE pin
    /\ UNCHANGED <<GPIO_AVAILABLE, seconds_per_50ml, backend, boot, config, calc,
                   machine_state, rowExists, is_pouring, points, history, pc, args,
                   rowcount, calculated, todo, durations, threads, primed, exc, retval,
                   resp, relAttempts, released>>

NextTest ==
    \/ Next
    \/ admin_test_pump
    \/ \E pump_id \in PumpIds : run_timed(pump_id)

\* src/backend/app.py with its admin testing pumps.
InitTest == Init /\ backend

SpecTest == InitTest /\ [][NextTest]_vars

\* ------------------------------------- first requests and process restarts

\* src/backend/app.py just started: _db_initialized is False and no request
\* has entered the before_request hook.  The database holds the pumps and
\* recipes; its machine_state table may be missing (a database older than
\* the table), or exist without its row, or hold the row.
InitBoot ==
    /\ GPIO_AVAILABLE \in BOOLEAN
    /\ seconds_per_50ml = Calibrated
    /\ timed = {}
    /\ backend = TRUE
    /\ boot \in {[db_initialized |-> FALSE, tables |-> tb, restarts |-> 0] : tb \in BOOLEAN}
    /\ config = MachineStateDefaults
    /\ calc = NoCalc
    /\ rowExists \in {x \in BOOLEAN : x => boot.tables}
    /\ is_pouring = FALSE
    /\ points = [u \in UserIds |-> 0]
    /\ history = {}
    /\ pin = [n \in Pins |-> "LOW"]
    /\ pc = [r \in Reqs |-> "wait"]
    /\ args = [r \in Reqs |-> NoArgs]
    /\ rowcount = [r \in Reqs |-> -1]
    /\ calculated = [r \in Reqs |-> << >>]
    /\ todo = [r \in Reqs |-> 1]
    /\ durations = [r \in Reqs |-> << >>]
    /\ threads = [r \in Reqs |-> NoThreads]
    /\ primed = [r \in Reqs |-> {}]
    /\ exc = [r \in Reqs |-> "none"]
    /\ retval = [r \in Reqs |-> NoResp]
    /\ resp = [r \in Reqs |-> NoResp]
    /\ relAttempts = [r \in Reqs |-> 0]
    /\ released = [r \in Reqs |-> 0]
    /\ machine_state = [r \in Reqs |-> NoMachineState]

\* Positions of a request inside ensure_db_initialized.
InitPcs == {"init_create", "init_count", "init_add", "init_pumps"}

\* @app.before_request ensure_db_initialized, its head: return at once when
\* _db_initialized is set; otherwise set it and go on to initialize.  The
\* test and the assignment run under the interpreter lock without a switch
\* between them.  Requests are numbered in the order in which they enter.
ensure_db_initialized(r) ==
    /\ pc[r] = "wait"
    /\ \A q \in Reqs : q < r => pc[q] # "wait"
    /\ IF boot.db_initialized
       THEN /\ pc' = [pc EXCEPT ![r] = "idle"]
            /\ boot' = boot
       ELSE /\ pc' = [pc EXCEPT ![r] = "init_create"]
            /\ boot' = [boot EXCEPT !.db_initialized = TRUE]
    /\ UNCHANGED <<GPIO_AVAILABLE, seconds_per_50ml, timed, backend, config, calc, machine_state, rowExists,
                   is_pouring, points, history, pin, args, rowcount, calculated, todo,
                   durations, threads, primed, exc, retval, resp, relAttempts, released>>

\* db.create_all(): creates the tables that are missing.
create_all(r) ==
    /\ pc[r] = "init_create"
    /\ boot' = [boot EXCEPT !.tables = TRUE]
    /\ pc' = [pc EXCEPT ![r] = "init_count"]
    /\ UNCHANGED <<GPIO_AVAILABLE, seconds_per_50ml, timed, backend, config, calc, machine_state, rowExists,
                   is_pouring, points, history, pin, args, rowcount, calculated, todo,
                   durations, threads, primed, exc, retval, resp, relAttempts, released>>

\* `if MachineState.query.count() == 0:` -- the read.
EnsureMachineStateCount(r) ==
    /\ pc[r] = "init_count"
    /\ pc' = [pc EXCEPT ![r] = IF rowExists THEN "init_pumps" ELSE "init_add"]
    /\ UNCHANGED <<GPIO_AVAILABLE, seconds_per_50ml, timed, backend, boot, config, calc, machine_state, rowExists,
                   is_pouring, points, history, pin, args, rowcount, calculated, todo,
                   durations, threads, primed, exc, retval, resp, relAttempts, released>>

\* db.session.add(MachineState(id=1, is_pouring=False)); commit.  id is the
\* primary key: when another view has inserted row 1 since the count, the
\* commit raises IntegrityError, which leaves the hook and the request.
EnsureMachineStateAdd(r) ==
    /\ pc[r] = "init_add"
    /\ IF rowExists
       THEN /\ Return(r, UnhandledResp)
            /\ UNCHANGED <<rowExists, is_pouring>>
       ELSE /\ rowExists' = TRUE
            /\ is_pouring' = FALSE
            /\ pc' = [pc EXCEPT ![r] = "init_pumps"]
            /\ UNCHANGED <<args, calculated, todo, durations, threads, primed, exc,
                           retval, resp, relAttempts, machine_state>>
    /\ UNCHANGED <<GPIO_AVAILABLE, seconds_per_50ml, timed, backend, boot, config, calc,
                   points, history, pin, rowcount, released>>

\* `if Pump.query.count() == 0:` -- the pumps exist, nothing is added; the
\* hook returns and the view function runs next.
EnsurePumps(r) ==
    /\ pc[r] = "init_pumps"
    /\ pc' = [pc EXCEPT ![r] = "idle"]
    /\ UNCHANGED <<GPIO_AVAILABLE, seconds_per_50ml, timed, backend, boot, config, calc, machine_state, rowExists,
                   is_pouring, points, history, pin, args, rowcount, calculated, todo,
                   durations, threads, primed, exc, retval, resp, relAttempts, released>>

\* The acquire update on a database without the machine_state table:
\* OperationalError, raised before the try block, answered by errorhandler(500).
AcquireNoTable(r) ==
    /\ pc[r] = "idle"
    /\ ~boot.tables
    /\ \A q \in Reqs : q < r => pc[q] # "idle"
    /\ Return(r, UnhandledResp)
    /\ UNCHANGED <<GPIO_AVAILABLE, seconds_per_50ml, timed, backend, boot, config, calc, rowExists, is_pouring,
                   points, history, pin, rowcount, released>>

\* The requests the process is serving: inside the hook or the view.
InFlight == {r \in Reqs : pc[r] \notin {"wait", "done"}}

\* The process dies (crash, kill, power loss) and is started again: the
\* module is loaded anew, so _db_initialized is False; the requests it was
\* serving get no answer and their threads are gone; the database keeps what
\* was committed.  The pins keep their level when only the process died and
\* fall back to LOW when the board lost power.
Restart ==
    /\ boot.restarts < MaxRestarts
    /\ boot' = [boot EXCEPT !.db_initialized = FALSE, !.restarts = @ + 1]
    /\ \E power_cycle \in BOOLEAN :
          pin' = IF power_cycle THEN [n \in Pins |-> "LOW"] ELSE pin
    /\ pc' = [r \in Reqs |-> IF r \in InFlight THEN "done" ELSE pc[r]]
    /\ args' = [r \in Reqs |-> NoArgs]
    /\ calculated' = [r \in Reqs |-> << >>]
    /\ todo' = [r \in Reqs |-> 1]
    /\ durations' = [r \in Reqs |-> << >>]
    /\ threads' = [r \in Reqs |-> NoThreads]
    /\ primed' = [r \in Reqs |-> {}]
    /\ exc' = [r \in Reqs |-> "none"]
    /\ retval' = [r \in Reqs |-> NoResp]
    /\ relAttempts' = [r \in Reqs |-> 0]
    /\ machine_state' = [r \in Reqs |-> NoMachineState]
    /\ timed' = {}
    /\ UNCHANGED <<GPIO_AVAILABLE, seconds_per_50ml, backend, config, calc, rowExists, is_pouring,
                   points, history, rowcount, resp, released>>

\* src/reset_machine.py, run by hand "if the machine gets stuck in 'busy'
\* mode", that is with is_pouring set and no request being served:
\* get_instance, and is_pouring set to False.
reset_machine_state ==
    /\ boot.tables
    /\ is_pouring /\ InFlight = {}
    /\ rowExists' = TRUE
    /\ is_pouring' = FALSE
    /\ UNCHANGED <<GPIO_AVAILABLE, seconds_per_50ml, timed, backend, boot, config, calc, machine_state,
                   points, history, pin, pc, args, rowcount, calculated, todo,
                   durations, threads, primed, exc, retval, resp, relAttempts, released>>

NextBoot ==
    \/ Next
    \/ OtherView
    \/ \E r \in Reqs : ensure_db_initialized(r)
    \/ \E r \in Reqs : create_all(r)
    \/ \E r \in Reqs : EnsureMachineStateCount(r)
    \/ \E r \in Reqs : EnsureMachineStateAdd(r)
    \/ \E r \in Reqs : EnsurePumps(r)
    \/ \E r \in Reqs : AcquireNoTable(r)
    \/ Restart
    \/ reset_machine_state

SpecBoot == InitBoot /\ [][NextBoot]_vars

\* ------------------------------------------------- the scaler on its own

\* Relative volumes a recipe may carry (Recipe.ingredients_json values).
RelVolumes == {0, 2, 4, 40, 45, 55, 60}

\* MachineState rows the scaler may be handed: the defaults, and the classic
\* volume set to 100 ml.
ConfigInputs ==
    {MachineStateDefaults, [MachineStateDefaults EXCEPT !.classic_target_vol = 100]}

\* Ingredient mappings: up to MaxIngredients distinct pump ids (dictionary
\* keys), each with a relative volume.
IngredientInputs ==
    UNION {{s \in [1 .. n -> AllPumpIds \X RelVolumes] :
              \A i, j \in 1 .. n : i # j => s[i][1] # s[j][1]} : n \in 1 .. MaxIngredients}

\* One pour's arithmetic outside the handler: the loaded MachineState row, the
\* taste flag and the recipe's category are given.
InitScaler ==
    /\ GPIO_AVAILABLE = FALSE
    /\ seconds_per_50ml = Calibrated
    /\ timed = {}
    /\ backend \in BOOLEAN
    /\ boot = Booted
    /\ config = MachineStateDefaults
    /\ calc \in {[stage |-> "input", ms |-> m, is_taste |-> t, category |-> c] :
                    m \in ConfigInputs, t \in BOOLEAN, c \in Categories}
    /\ rowExists = TRUE
    /\ is_pouring = FALSE
    /\ points = [u \in UserIds |-> 0]
    /\ history = {}
    /\ pin = [n \in Pins |-> "LOW"]
    /\ InitLocals

\* The if / elif chain that selects target_volume.
CalcTarget ==
    /\ calc.stage = "input"
    /\ calc' = [stage |-> "target", ms |-> calc.ms, is_taste |-> calc.is_taste,
                category |-> calc.category,
                target_volume |-> TargetVolume(calc.ms, calc.is_taste, calc.category),
                is_highball |-> IsHighball(calc.is_taste, calc.category)]
    /\ UNCHANGED <<GPIO_AVAILABLE, seconds_per_50ml, timed, backend, boot, config, machine_state, rowExists, is_pouring,
                   points, history, pin, pc, args, rowcount, calculated, todo, durations,
                   threads, primed, exc, retval, resp, relAttempts, released>>

\* `if original_total == 0: return ... 400` for the recipe's ingredients.
CalcRejectZero ==
    /\ calc.stage = "target"
    /\ \E ings \in IngredientInputs :
          /\ SumRel(ings) = 0
          /\ calc' = [stage |-> "invalid", ingredients |-> ings,
                      target_volume |-> calc.target_volume]
    /\ UNCHANGED <<GPIO_AVAILABLE, seconds_per_50ml, timed, backend, boot, config, machine_state, rowExists, is_pouring,
                   points, history, pin, pc, args, rowcount, calculated, todo, durations,
                   threads, primed, exc, retval, resp, relAttempts, released>>

\* The scaling loop and the strong-mode loop for the recipe's ingredients.
CalcScale ==
    /\ calc.stage = "target"
    /\ \E ings \in IngredientInputs, strong \in BOOLEAN :
          /\ SumRel(ings) # 0
          /\ calc' = [stage |-> "scaled", ingredients |-> ings, is_strong |-> strong,
                      target_volume |-> calc.target_volume,
                      calculated_ingredients |->
                         ScaleIngredients(ings, SumRel(ings), calc.target_volume, strong)]
    /\ UNCHANGED <<GPIO_AVAILABLE, seconds_per_50ml, timed, backend, boot, config, machine_state, rowExists, is_pouring,
                   points, history, pin, pc, args, rowcount, calculated, todo, durations,
                   threads, primed, exc, retval, resp, relAttempts, released>>

\* The points computation on the scaled volumes.
CalcPoints ==
    /\ calc.stage = "scaled"
    /\ calc' = [calc EXCEPT !.stage = "scored"] @@
                [points_earned |->
                    PointsEarned(backend, calc.calculated_ingredients, calc.is_strong)]
    /\ UNCHANGED <<GPIO_AVAILABLE, seconds_per_50ml, timed, backend, boot, config, machine_state, rowExists, is_pouring,
                   points, history, pin, pc, args, rowcount, calculated, todo, durations,
                   threads, primed, exc, retval, resp, relAttempts, released>>

NextScaler == CalcTarget \/ CalcRejectZero \/ CalcScale \/ CalcPoints

SpecScaler == InitScaler /\ [][NextScaler]_vars

\* ================================================================== claims

\* A recipe id the pour cannot scale: no Recipe row, or relative volumes
\* (possibly none) that sum to zero.
RecipeInvalid(rid) ==
    \/ rid \notin RecipeIds
    \/ SumRel(RecipeTable[rid].ingredients) = 0

RECURSIVE SumAwarded(_)
\* Sum of points_awarded over a set of PourHistory rows.
SumAwarded(rows) ==
    IF rows = {} THEN 0
    ELSE LET x == CHOOSE y \in rows : TRUE
         IN  x.points_awarded + SumAwarded(rows \ {x})

\* Every user's points are exactly what the committed history rows awarded.
PointsMatchHistory ==
    \A u \in UserIds : points[u] = SumAwarded({h \in history : h.user_id = u})

\* C1 -- Mutual exclusion: at no instant do two requests stand between a
\* successful acquire and the end of their release; and when every request has
\* executed its acquire before any release write was committed (they raced on
\* the lock that was free at the start), exactly one acquired and every other
\* one returned the 400 busy response.
C1_MutualExclusion ==
    /\ Cardinality(Holders) <= 1
    /\ ( (\A r \in Reqs : pc[r] # "idle") /\ (\A r \in Reqs : released[r] = 0) )
          => /\ Cardinality({r \in Reqs : rowcount[r] = 1}) = 1
             /\ \A r \in Reqs : rowcount[r] # 1 =>
                   pc[r] = "done" /\ resp[r] = BusyResp /\ resp[r].status = 400

\* C1 witness: one request is dispensing (a thread of it started or ON) while
\* every other request has already been answered busy.
C1_Witness ==
    \E r \in Reqs :
       /\ pc[r] = "fanout"
       /\ \E p \in PumpIds : threads[r][p] \in {"started", "on"}
       /\ \A q \in Reqs \ {r} : pc[q] = "done" /\ resp[q] = BusyResp
       /\ \A q \in Reqs : released[q] = 0

\* C2 -- A request that fails to acquire changes nothing: its acquire step
\* leaves is_pouring, the singleton, points, history, pins and threads as they
\* were and ends the request with the busy response; a busy request never
\* reaches the release write, so it commits no release.
C2_BusyChangesNothing ==
    /\ [](\A r \in Reqs : rowcount[r] = 0 =>
             /\ pc[r] = "done" /\ resp[r] = BusyResp
             /\ released[r] = 0 /\ relAttempts[r] = 0
             /\ threads[r] = NoThreads
             /\ ~\E h \in history : h.req = r)
    /\ [][\A r \in Reqs : (pc[r] = "idle" /\ rowcount'[r] = 0) =>
             /\ pc'[r] = "done"
             /\ UNCHANGED <<rowExists, is_pouring, points, history, pin, threads,
                            released>>]_vars

\* C2 witness: a request was answered busy while another one holds the lock
\* with a pump running.
C2_Witness ==
    \E r, q \in Reqs :
       /\ rowcount[r] = 0 /\ pc[r] = "done"
       /\ pc[q] = "fanout" /\ is_pouring
       /\ \E p \in PumpIds : threads[q][p] = "on"

\* C3 -- Lock liberation: once a request that acquired the lock has completed
\* (and no later request holds the lock), is_pouring is false.
C3_LockLiberation ==
    \A r \in Reqs :
       (pc[r] = "done" /\ rowcount[r] = 1 /\ Holders = {}) => ~is_pouring

\* C4 -- Every exception raised after the acquire is caught: a request that
\* held the lock and ends with a 500 ends with the pour-failed response and
\* from its release step.
C4_ExceptionsCaught ==
    [][\A r \in Reqs :
          (pc[r] \in HeldPcs /\ pc'[r] = "done" /\ resp'[r].status = 500) =>
             (resp'[r] = PourFailedResp /\ pc[r] \in {"finally", "retry"})]_vars

\* C5 -- Release retry: a failed first release write is followed by exactly one
\* more attempt; whether the second attempt commits or fails, the request then
\* ends and the client receives the return value chosen by try / except (the
\* failure is swallowed, nothing else replaces the response).
C5_ReleaseRetry ==
    /\ [](\A r \in Reqs : relAttempts[r] <= 1 /\ (pc[r] = "retry" <=> relAttempts[r] = 1))
    /\ [][\A r \in Reqs :
             /\ (pc[r] = "finally" /\ pc'[r] # "finally") =>
                   \/ /\ pc'[r] = "done" /\ resp'[r] = retval[r]
                      /\ ~is_pouring' /\ released'[r] = released[r] + 1
                   \/ /\ pc'[r] = "retry" /\ retval'[r] = retval[r]
                      /\ is_pouring' = is_pouring /\ released'[r] = released[r]
             /\ (pc[r] = "retry" /\ pc'[r] # "retry") =>
                   /\ pc'[r] = "done"
                   /\ resp'[r] = retval[r]
                   /\ retval[r].kind \in {"success", "invalid_recipe", "pour_failed"}
                   /\ \/ ~is_pouring' /\ released'[r] = released[r] + 1
                      \/ is_pouring' = is_pouring /\ released'[r] = released[r]]_vars

\* C5 witness: a successful pour whose two release writes both failed: the
\* client got the success response and the lock is still set.
C5_Witness ==
    \E r \in Reqs :
       /\ pc[r] = "done" /\ rowcount[r] = 1
       /\ resp[r].kind = "success" /\ resp[r].points_added > 0
       /\ released[r] = 0 /\ is_pouring

\* C6 -- MachineState invariant: is_pouring is true exactly when one request
\* stands between its successful acquire and the end of its release step.
C6_PouringIffOneHolder ==
    is_pouring <=> (Cardinality(Holders) = 1)

\* C7 -- Released exactly once: every completed request that acquired the lock
\* committed exactly one write setting is_pouring to false.
C7_ReleasedExactlyOnce ==
    \A r \in Reqs : (pc[r] = "done" /\ rowcount[r] = 1) => released[r] = 1

\* C8 -- try_acquire returns true iff it changed is_pouring from false to
\* true, and answers busy only while another request holds the lock (so not
\* when nobody pours and the singleton has not been created yet).
C8_BusyOnlyWhenHeld ==
    [][\A r \in Reqs :
          (pc[r] = "idle" /\ pc'[r] # "idle") =>
             /\ (rowcount'[r] = 1) <=> (~is_pouring /\ is_pouring')
             /\ (rowcount'[r] = 0) => Holders # {}]_vars

\* C9 -- A pour of a missing recipe or of a zero-volume recipe is answered
\* with status 400 and the invalid-recipe error.
C9_InvalidRecipeIs400 ==
    \A r \in Reqs :
       (pc[r] \in {"finally", "retry"} /\ args[r] # NoArgs
          /\ RecipeInvalid(args[r].recipe_id)) =>
             (retval[r].status = 400 /\ retval[r].kind = "invalid_recipe")

\* C10 -- An invalid recipe (missing, empty or zero total) is detected before
\* any hardware action: such a pour primes no channel, starts no dispense task,
\* writes no PourHistory row, and no user's points move (points are exactly
\* the sum of the rows written by other pours).
C10_InvalidBeforeHardware ==
    /\ PointsMatchHistory
    /\ \A r \in Reqs :
          \/ (args[r] # NoArgs /\ RecipeInvalid(args[r].recipe_id))
          \/ (pc[r] = "done" /\ resp[r].kind = "invalid_recipe")
          => /\ primed[r] = {}
             /\ threads[r] = NoThreads
             /\ durations[r] = << >>
             /\ ~\E h \in history : h.req = r

\* C10 witness: on the hardware build, after an earlier pour was recorded, a
\* request holding the lock has found its recipe invalid.
C10_Witness ==
    \E r \in Reqs :
       /\ GPIO_AVAILABLE
       /\ history # {}
       /\ pc[r] \in {"except", "finally"}
       /\ args[r] # NoArgs /\ RecipeInvalid(args[r].recipe_id)

\* The response request r has chosen or already received.
Answer(r) == IF pc[r] = "done" THEN resp[r] ELSE retval[r]

C12_ExceptionRollsBack ==
    /\ [](\A r \in Reqs :
             (exc[r] = "storage" /\ calculated[r] # << >>
                /\ pc[r] \in {"finally", "retry"}) =>
                /\ retval[r] = PourFailedResp /\ retval[r].status = 500
                /\ PointsMatchHistory
                /\ ~\E h \in history : h.req = r)
    /\ [][\A r \in Reqs :
             (exc[r] = "storage" /\ calculated[r] # << >>
                /\ pc[r] \in {"finally", "retry"} /\ pc'[r] = "done") =>
                /\ resp'[r] = PourFailedResp
                /\ ~is_pouring']_vars

\* The scaler has produced calculated_ingredients for its input.
Scaled == calc.stage \in {"scaled", "scored"}

\* Pump id pid has a Pump row marked alcoholic (`pump and pump.is_alcohol`).
IsAlcoholic(pid) == pid \in PumpIds /\ PumpTable[pid].is_alcohol

\* p is the integer nearest to a thousandths, a tie going to the even one.
IsRounded(p, a) ==
    /\ 2 * (p * Milli - a) <= Milli
    /\ 2 * (a - p * Milli) <= Milli
    /\ (2 * (p * Milli - a) = Milli \/ 2 * (a - p * Milli) = Milli) => p % 2 = 0

\* C13 -- Scaling correctness: without strong mode every scaled volume is
\* (relative volume / total relative volume) * target volume (to the last
\* thousandth of a millilitre), pump by pump in the recipe's order, so the
\* volumes sum to the target; {1: 2, 2: 4} at 90 ml gives {1: 30, 2: 60}.
C13_ScalingCorrect ==
    (Scaled /\ ~calc.is_strong) =>
       LET ings   == calc.ingredients
           out    == calc.calculated_ingredients
           total  == SumRel(ings)
           target == calc.target_volume
       IN  /\ Len(out) = Len(ings)
           /\ \A i \in 1 .. Len(ings) :
                 /\ out[i][1] = ings[i][1]
                 /\ out[i][2] * total <= ings[i][2] * target * Milli
                 /\ ings[i][2] * target * Milli < (out[i][2] + 1) * total
           /\ SumRel(out) <= target * Milli
           /\ SumRel(out) > target * Milli - Len(ings)
           /\ (ings = << <<1, 2>>, <<2, 4>> >> /\ target = 90) =>
                 out = << <<1, 30 * Milli>>, <<2, 60 * Milli>> >>

\* C13 witness: {1: 2, 2: 4} scaled to 90 ml without strong mode.
C13_Witness ==
    /\ calc.stage = "scaled" /\ ~calc.is_strong
    /\ calc.ingredients = << <<1, 2>>, <<2, 4>> >>
    /\ calc.target_volume = 90
    /\ calc.calculated_ingredients = << <<1, 30 * Milli>>, <<2, 60 * Milli>> >>

\* C15 -- Strong-mode isolation: with is_strong every ingredient on an
\* alcoholic pump is 1.5 times its non-strong scaled volume (to the last
\* thousandth) and every other ingredient equals its non-strong scaled volume;
\* without is_strong nothing is multiplied; {alcohol: 40, mixer: 60} at 100 ml
\* in strong mode gives alcohol 60, mixer 60.
C15_StrongModeIsolation ==
    Scaled =>
       LET ings  == calc.ingredients
           out   == calc.calculated_ingredients
           plain == ScaleIngredients(ings, SumRel(ings), calc.target_volume, FALSE)
       IN  /\ \A i \in 1 .. Len(ings) :
                 IF calc.is_strong /\ IsAlcoholic(ings[i][1])
                 THEN /\ 2 * out[i][2] <= 3 * plain[i][2]
                      /\ 3 * plain[i][2] < 2 * out[i][2] + 2
                 ELSE out[i] = plain[i]
           /\ (calc.is_strong /\ ings = << <<1, 40>>, <<2, 60>> >>
                 /\ calc.target_volume = 100) =>
                 out = << <<1, 60 * Milli>>, <<2, 60 * Milli>> >>

\* C15 witness: {alcohol: 40, mixer: 60} scaled to 100 ml in strong mode.
C15_Witness ==
    /\ calc.stage = "scaled" /\ calc.is_strong
    /\ calc.ingredients = << <<1, 40>>, <<2, 60>> >>
    /\ calc.target_volume = 100
    /\ calc.calculated_ingredients = << <<1, 60 * Milli>>, <<2, 60 * Milli>> >>

\* C16 -- Target volume selection is total in (is_taste, category): taste
\* selects taste_amount_ml for every category; otherwise highball and shot
\* select their own volume and every other category, known or not, the
\* classic one; is_highball is true iff the category is highball and is_taste
\* is unset.
C16_TargetSelection ==
    calc.stage = "target" =>
       LET ms == calc.ms
           tv == calc.target_volume
       IN  /\ calc.is_taste => tv = ms.taste_amount_ml
           /\ (~calc.is_taste /\ calc.category = "highball") => tv = ms.highball_target_vol
           /\ (~calc.is_taste /\ calc.category = "shot") => tv = ms.shot_target_vol
           /\ (~calc.is_taste /\ calc.category \notin {"highball", "shot"}) =>
                 tv = ms.classic_target_vol
           /\ calc.is_highball <=> (calc.category = "highball" /\ ~calc.is_taste)

\* C16 witness: a taste pour of a highball recipe gets the taste amount and
\* is not flagged is_highball.
C16_Witness ==
    /\ calc.stage = "target"
    /\ calc.is_taste /\ calc.category = "highball"
    /\ calc.target_volume = taste_amount_ml /\ ~calc.is_highball

C14_ZeroTargetRejected ==
    /\ [][\A r \in Reqs :
             (/\ pc[r] = "try" /\ pc'[r] \notin {"try", "except"}
              /\ TargetVolume(machine_state[r], args'[r].is_taste,
                              RecipeTable[args'[r].recipe_id].category) <= 0) =>
                (pc'[r] = "finally" /\ retval'[r] = InvalidResp)]_vars
    /\ [](\A r \in Reqs :
             (calculated[r] # << >> /\ SumRel(calculated[r]) = 0) =>
                /\ threads[r] = NoThreads
                /\ primed[r] = {}
                /\ ~\E h \in history : h.req = r
                /\ retval[r].kind # "success")

\* C18 -- Join before scoring: a request is at its scoring code only when
\* every dispense thread it started has returned from pour_ingredient, and
\* every step that adds points or writes a PourHistory row of a request is
\* taken with all of that request's threads terminated, before and after it.
C18_JoinBeforeScoring ==
    /\ [](\A r \in Reqs : pc[r] = "score" => \A p \in AllPumpIds : Finished(r, p))
    /\ [][\A r \in Reqs :
             (\/ \E h \in history' \ history : h.req = r
              \/ (pc[r] = "score" /\ points' # points)) =>
                \A p \in AllPumpIds :
                    /\ Finished(r, p)
                    /\ threads'[r][p] = threads[r][p]]_vars

\* A pour was scored after threads it started ran their pump to the end.
C18_Witness ==
    \E r \in Reqs :
        /\ \E h \in history : h.req = r /\ h.points_awarded > 0
        /\ \E p \in PumpIds : threads[r][p] = "ok"

\* C19 -- Idle-safe polarity of the pump driver: the step in which
\* initialize_pump_pin primes a pump leaves its pin LOW, and the step in
\* which pour_ingredient returns for a pump with a pin on the hardware
\* build, with True or after a hardware error with False, leaves its pin LOW.
C19_IdleSafePolarity ==
    [][\A r \in Reqs : \A p \in PumpIds :
          /\ (p \in primed'[r] \ primed[r]) => pin'[PumpTable[p].pin_number] = "LOW"
          /\ (/\ Drivable(p)
              /\ threads[r][p] \in {"started", "on"}
              /\ threads'[r][p] \notin {"started", "on"}) =>
                 pin'[PumpTable[p].pin_number] = "LOW"]_vars

\* C20 -- A pump with no assigned pin is skipped, on the hardware build and
\* in simulation alike: it is never primed, no step of its thread changes a
\* pin, and its thread never returns True (a completed dispense).
C20_NoPinSkipped ==
    /\ [](\A r \in Reqs : \A p \in PumpIds :
             PumpTable[p].pin_number = 0 =>
                (p \notin primed[r] /\ threads[r][p] # "ok"))
    /\ [][\A r \in Reqs : \A p \in PumpIds :
             (PumpTable[p].pin_number = 0 /\ threads'[r][p] # threads[r][p]) =>
                pin' = pin]_vars

\* The step is the return of pour_ingredient for pump p of request r with
\* False: the thread was running and is now over without a completed dispense.
ThreadFails(r, p) ==
    /\ threads[r][p] \in {"started", "on"}
    /\ threads'[r][p] \in {"fail", "none"}

\* C21 -- Hardware-fault isolation: the step in which one dispense thread of
\* a pour fails changes no sibling thread of that pour, no pin but its own and
\* not the orchestrator's position; beside a failed thread, a sibling that has
\* started can still switch its pump ON and a sibling that is ON can still
\* run to its OFF; and the orchestrator passes its join, with a failed thread
\* among them, only when every thread of the pour has terminated.
C21_FaultIsolation ==
    /\ [][\A r \in Reqs : \A p \in PumpIds :
             ThreadFails(r, p) =>
                /\ \A q \in AllPumpIds \ {p} : threads'[r][q] = threads[r][q]
                /\ \A n \in Pins \ {PumpTable[p].pin_number} : pin'[n] = pin[n]
                /\ pc'[r] = pc[r]]_vars
    /\ [](\A r \in Reqs :
             (\E p \in PumpIds : threads[r][p] = "fail") =>
                /\ \A q \in PumpIds :
                      /\ (threads[r][q] = "started" /\ Drivable(q)) => ENABLED PumpOn(r, q)
                      /\ threads[r][q] = "on" => ENABLED PumpOff(r, q)
                /\ pc[r] = "score" => \A q \in AllPumpIds : Finished(r, q))

\* A pour stands at its scoring code with one thread that failed and a
\* sibling that ran its pump to the end.
C21_Witness ==
    \E r \in Reqs : \E p, q \in PumpIds :
        /\ GPIO_AVAILABLE /\ pc[r] = "score"
        /\ PumpTable[p].pin_number # 0
        /\ threads[r][p] = "fail" /\ threads[r][q] = "ok"

\* The scaled ingredients of request r whose pour_ingredient returned True.
Delivered(r) ==
    SelectSeq(calculated[r], LAMBDA x : x[1] \in PumpIds /\ threads[r][x[1]] = "ok")

\* C22 -- A pump whose run returned False contributes no points and spoils
\* the clean success: a pour that has chosen its success response has no
\* failed thread, and the points it added are those of the scaled alcohol
\* volume of the pumps whose run returned True.
C22_FailedPumpNoPoints ==
    \A r \in Reqs :
        retval[r].kind = "success" =>
            /\ \A p \in PumpIds : threads[r][p] # "fail"
            /\ retval[r].points_added = PointsEarned(backend, Delivered(r), args[r].is_strong)

\* The ingredients of a scaled recipe whose pump has a row, in loop order.
WithPump(c) == SelectSeq(c, LAMBDA x : x[1] \in PumpIds)

\* C23 -- Fan-out/join: while a pour is in flight, the threads it has started
\* are exactly one per ingredient with a Pump row among those the loop has
\* passed, and the duration list holds (scaled_ml / 50) * seconds_per_50ml of
\* each, in order; the orchestrator goes on to its join only after the loop
\* has passed every ingredient; and the total_duration of a success response
\* is the largest of those durations (one of them, not below any), or 0 when
\* no thread was started.
C23_FanOutJoin ==
    /\ [](\A r \in Reqs : pc[r] # "done" =>
             LET passed == WithPump(SubSeq(calculated[r], 1, todo[r] - 1))
             IN  /\ {p \in AllPumpIds : threads[r][p] # "none"} =
                        {passed[i][1] : i \in 1 .. Len(passed)}
                 /\ durations[r] =
                        [i \in 1 .. Len(passed) |-> Duration(passed[i][2], passed[i][1])]
                 /\ retval[r].kind = "success" =>
                        LET ds == durations[r]
                            td == retval[r].total_duration
                        IN  /\ Len(ds) = Len(WithPump(calculated[r]))
                            /\ IF ds = << >> THEN td = 0
                               ELSE /\ \E i \in 1 .. Len(ds) : ds[i] = td
                                    /\ \A i \in 1 .. Len(ds) : ds[i] <= td)
    /\ [][\A r \in Reqs :
             (pc[r] = "fanout" /\ pc'[r] = "score") => todo[r] > Len(calculated[r])]_vars

\* A pour succeeded with two pumps of different positive durations: the
\* reported total is the longer one and less than their sum.
C23_Witness ==
    \E r \in Reqs :
        /\ retval[r].kind = "success"
        /\ Len(durations[r]) = 2
        /\ durations[r][1] > 0 /\ durations[r][2] > durations[r][1]
        /\ retval[r].total_duration = durations[r][2]

\* C24 -- A stuck lock is recoverable by restart: when, after a restart of
\* the process, ensure_db_initialized finishes for the first request served
\* since (every earlier request ended before or with the restart, no later
\* one has entered), is_pouring is false, so that the pour which follows
\* acquires the lock.
C24_RestartRecovers ==
    [][\A r \in Reqs :
          (/\ boot.restarts > 0
           /\ pc[r] \in InitPcs /\ pc'[r] = "idle"
           /\ \A q \in Reqs : (q < r => pc[q] = "done") /\ (q > r => pc[q] = "wait"))
             => ~is_pouring']_vars

\* C25 -- Calibration invariant: whatever the admin has posted to the update
\* and calibrate endpoints, every pump's seconds_per_50ml is greater than 0,
\* and every duration the pour computes from it is non-negative.
C25_CalibrationPositive ==
    /\ \A p \in PumpIds : seconds_per_50ml[p] > 0
    /\ calc.stage = "duration" => calc.duration >= 0

\* C26 -- Target-volume invariant: whatever the admin has posted to the
\* category-volumes and taste-amount endpoints, the three category volumes
\* and the taste amount are positive and the taste amount lies in 10..100.
C26_TargetVolumesPositive ==
    /\ config.classic_target_vol > 0
    /\ config.highball_target_vol > 0
    /\ config.shot_target_vol > 0
    /\ config.taste_amount_ml \in 10 .. 100

\* C27 -- Termination: under fair scheduling every pour request that
\* acquired the lock reaches its release step (the finally clause), and
\* returns a response.
C27_Termination ==
    \A r \in Reqs :
        /\ (pc[r] = "locked") ~> (pc[r] = "finally")
        /\ (pc[r] = "locked") ~> (pc[r] = "done" /\ resp[r] # NoResp)

\* C28 -- The lock outlives the dispensing it protects: in the step in which
\* a request commits its release write, every dispense thread it started has
\* returned, so none of its pumps is ON.
C28_ReleaseAfterDispense ==
    [][\A r \in Reqs :
          released'[r] > released[r] =>
             \A p \in AllPumpIds : threads[r][p] \in {"none", "ok", "fail"}]_vars

\* C29 -- A relay channel is ON only while the machine lock is held: in
\* every reachable state, if the pin of some pump is HIGH then is_pouring is
\* true.
C29_OnOnlyWhileLocked ==
    (\E n \in Pins : pin[n] = "HIGH") => is_pouring

\* C30 -- First-request initialization: whenever the view function of a
\* request starts (its lock acquire runs), no request is still inside
\* ensure_db_initialized, the machine_state table exists and holds its row.
C30_InitBeforeHandlers ==
    [][\A r \in Reqs :
          (pc[r] = "idle" /\ pc'[r] # "idle") =>
             /\ \A q \in Reqs : pc[q] \notin InitPcs
             /\ boot.tables
             /\ rowExists]_vars

====
